---- MODULE Spec2Model ----
(***************************************************************************)
(* Model of qrsdel/utils/signal_measures.py: mode, get_peaks and           *)
(* characterize_baseline.  One call of one function is followed per        *)
(* behaviour; Init draws the function and its arguments from bounded sets. *)
(* Arrays are functions over 0..n-1, so that indices are the Python ones.  *)
(***************************************************************************)
EXTENDS Integers, Sequences, FiniteSets

\* ---------------------------------------------------------------- bounds
MaxLen == 5          \* longest enumerated get_peaks input
MaxVal == 2          \* get_peaks samples are drawn from 0..MaxVal
MaxSigLen == 3       \* longest enumerated mode input
MaxSample == 4       \* mode samples are drawn from 0..MaxSample
MaxMargin == 2       \* BL_MARGIN is drawn from 1..MaxMargin
MaxMinLen == 4       \* BL_MIN_LEN is drawn from 1..MaxMinLen
MaxBeg == 4          \* beg is drawn from -1..MaxBeg
MaxEnd == 6          \* end is drawn from -1..MaxEnd
MaxFragLen == 2      \* longest fragment the signal buffer hands back
MantBits == 3        \* significand width of the modelled binary floating point
FracBits == 4        \* a floating-point value x stands for x / 2^FracBits
MaxFlSample == 40    \* floating-point samples are drawn from -MaxFlSample..MaxFlSample

VARIABLES
    op,       \* the function being called
    pc,       \* position inside the call
    C,        \* the configuration constants BL_MARGIN and BL_MIN_LEN
    arr,      \* get_peaks: the argument
    sdif,     \* get_peaks: sign of the first difference, updated in place
    i,        \* get_peaks: loop index
    signal,   \* mode / characterize_baseline: the sample array
    lead,     \* characterize_baseline: argument
    beg,      \* characterize_baseline: argument, rebound at line 150
    end,      \* characterize_baseline: argument, rebound at line 151
    args,     \* the arguments as passed by the caller
    calls,    \* the requests received by get_signal_fragment, in order
    ret,      \* the returned value
    err       \* the raised exception, "" if none

vars == <<op, pc, C, arr, sdif, i, signal, lead, beg, end, args, calls, ret, err>>

None == "None"

\* ------------------------------------------------------------- arrays
Arr(s) == [k \in 0..(Len(s) - 1) |-> s[k + 1]]
len(a) == Cardinality(DOMAIN a)
Arrays(n, V) == [0..(n - 1) -> V]
EmptyArr == Arr(<<>>)

\* np.sign
Sign(x) == IF x > 0 THEN 1 ELSE IF x < 0 THEN -1 ELSE 0

\* np.diff
Diff(a) == [k \in 0..(len(a) - 2) |-> a[k + 1] - a[k]]

\* np.sign(np.diff(arr))
SignDiff(a) == [k \in DOMAIN Diff(a) |-> Sign(Diff(a)[k])]

\* np.any
Any(sd) == \E k \in DOMAIN sd : sd[k] # 0

\* np.where(sdif[1:] != sdif[:-1])[0] + 1, ascending
RECURSIVE WhereFrom(_, _)
WhereFrom(sd, k) ==
    IF k > len(sd) - 2 THEN <<>>
    ELSE IF sd[k + 1] # sd[k] THEN <<k + 1>> \o WhereFrom(sd, k + 1)
         ELSE WhereFrom(sd, k + 1)

Where(sd) == WhereFrom(sd, 0)

\* the forward fill of one element, lines 117-118
FillMut(sd, k) == IF sd[k] = 0 THEN [sd EXCEPT ![k] = 0 - sd[k - 1]] ELSE sd

Fill(sd, k) == IF sd[k] = 0 THEN [sd EXCEPT ![k] = sd[k - 1]] ELSE sd

\* the guard of line 107, "not np.any(sdif)"
AllFlatMut(sd) == FALSE

AllFlat(sd) == ~Any(sd)

\* the guard of line 103
TooShort(a) == len(a) < 3

\* ------------------------------------------------------------- rationals
\* Exact values num/den with den > 0, kept in lowest terms.
Abs(x) == IF x < 0 THEN 0 - x ELSE x

RECURSIVE GCD(_, _)
GCD(a, b) == IF b = 0 THEN a ELSE GCD(b, a % b)

Rat(n, d) ==
    LET g == GCD(Abs(n), Abs(d))
        s == IF d < 0 THEN 0 - 1 ELSE 1
    IN  <<(s * n) \div g, (s * d) \div g>>

RAdd(x, y) == Rat(x[1] * y[2] + y[1] * x[2], x[2] * y[2])
RSub(x, y) == Rat(x[1] * y[2] - y[1] * x[2], x[2] * y[2])
RMul(x, y) == Rat(x[1] * y[1], x[2] * y[2])
RDiv(x, y) == Rat(x[1] * y[2], x[2] * y[1])
RLess(x, y) == x[1] * y[2] < y[1] * x[2]
RInt(n) == <<n, 1>>

\* int(): truncation toward zero
Trunc(x) == IF x[1] >= 0 THEN x[1] \div x[2] ELSE 0 - ((0 - x[1]) \div x[2])

\* ------------------------------------------------------------------ mode
ArrMax(a) == CHOOSE m \in {a[k] : k \in DOMAIN a} : \A k \in DOMAIN a : a[k] <= m
ArrMin(a) == CHOOSE m \in {a[k] : k \in DOMAIN a} : \A k \in DOMAIN a : a[k] >= m

\* line 33: int((signal.max() - signal.min()) / C.BL_MARGIN) or 1
NBins(sig, margin) ==
    LET q == Trunc(RDiv(RInt(ArrMax(sig) - ArrMin(sig)), RInt(margin)))
    IN  IF q = 0 THEN 1 ELSE q

\* np.histogram, the outer edges: a degenerate range is widened by 0.5
FirstEdge(sig) ==
    IF ArrMin(sig) = ArrMax(sig) THEN RSub(RInt(ArrMin(sig)), Rat(1, 2))
    ELSE RInt(ArrMin(sig))
LastEdge(sig) ==
    IF ArrMin(sig) = ArrMax(sig) THEN RAdd(RInt(ArrMax(sig)), Rat(1, 2))
    ELSE RInt(ArrMax(sig))

\* np.histogram, the bin edges: np.linspace(first, last, nbins + 1)
BinEdges(sig, nbins) ==
    LET f == FirstEdge(sig)
        l == LastEdge(sig)
        step == RDiv(RSub(l, f), RInt(nbins))
    IN  [k \in 0..nbins |-> IF k = nbins THEN l ELSE RAdd(RMul(RInt(k), step), f)]

\* np.histogram, the bin of one sample: scale, truncate, fold the right
\* edge into the last bin, then correct against the edges
BinIndex(x, sig, nbins) ==
    LET f == FirstEdge(sig)
        l == LastEdge(sig)
        edges == BinEdges(sig, nbins)
        fidx == RMul(RDiv(RSub(RInt(x), f), RSub(l, f)), RInt(nbins))
        i0 == Trunc(fidx)
        i1 == IF i0 = nbins THEN i0 - 1 ELSE i0
        i2 == IF RLess(RInt(x), edges[i1]) THEN i1 - 1 ELSE i1
    IN  IF ~RLess(RInt(x), edges[i2 + 1]) /\ i2 # nbins - 1 THEN i2 + 1 ELSE i2

\* np.histogram: (counts, edges)
Histogram(sig, nbins) ==
    <<[b \in 0..(nbins - 1) |->
          Cardinality({k \in DOMAIN sig : BinIndex(sig[k], sig, nbins) = b})],
      BinEdges(sig, nbins)>>

\* ndarray.argmax: the first index of the largest value
ArgMaxMut(cnt) ==
    CHOOSE b \in DOMAIN cnt :
        /\ \A o \in DOMAIN cnt : cnt[o] <= cnt[b]
        /\ \A o \in DOMAIN cnt : o > b => cnt[o] < cnt[b]

ArgMax(cnt) ==
    CHOOSE b \in DOMAIN cnt :
        /\ \A o \in DOMAIN cnt : cnt[o] <= cnt[b]
        /\ \A o \in DOMAIN cnt : o < b => cnt[o] < cnt[b]

\* lines 33-36
ModeValue(sig, margin) ==
    LET nbins == NBins(sig, margin)
        hist == Histogram(sig, nbins)
        peak == ArgMax(hist[1])
    IN  RAdd(hist[2][peak], RDiv(RSub(hist[2][peak + 1], hist[2][peak]), RInt(2)))

\* ------------------------------------------------- binary floating point
\* Values are integers counting units of 2^-FracBits; a value is
\* representable when its magnitude has at most MantBits significant bits
\* (IEEE-754 binary64 has 53).  Fl rounds to nearest, ties to even.
RECURSIVE Pow2(_)
Pow2(n) == IF n = 0 THEN 1 ELSE 2 * Pow2(n - 1)

RECURSIVE BitLen(_)
BitLen(x) == IF x = 0 THEN 0 ELSE 1 + BitLen(x \div 2)

Fl(x) ==
    LET a == Abs(x)
        n == BitLen(a)
    IN  IF n <= MantBits THEN x
        ELSE LET q == Pow2(n - MantBits)
                 m == a \div q
                 r == a - m * q
                 up == 2 * r > q \/ (2 * r = q /\ m % 2 = 1)
             IN  Sign(x) * (IF up THEN (m + 1) * q ELSE m * q)

Representable(x) == Fl(x) = x

FlHalf == Pow2(FracBits - 1)

\* line 36 in floating point: hist[1][peak] + (hist[1][peak+1] - hist[1][peak]) / 2.0
FlMidpointMut(lo, hi) == lo

FlMidpoint(lo, hi) == Fl(lo + (Fl(hi - lo) \div 2))

\* lines 33-36 in floating point, for a constant signal: max - min is 0,
\* "0 or 1" is 1 bin, and np.histogram widens the degenerate range by 0.5
FlModeValue(sig) ==
    LET first == Fl(ArrMin(sig) - FlHalf)
        last == Fl(ArrMax(sig) + FlHalf)
    IN  FlMidpoint(first, last)

\* ------------------------------------------------------------ kurtosis
RECURSIVE SumTo(_, _)
SumTo(f, n) == IF n = 0 THEN 0 ELSE f[n - 1] + SumTo(f, n - 1)

Sum(f) == SumTo(f, len(f))

\* scipy.stats.kurtosis: m4 / m2^2 - 3 with biased central moments,
\* nan when the variance is 0
Kurtosis(sig) ==
    LET n == len(sig)
        d == [k \in DOMAIN sig |-> n * sig[k] - Sum(sig)]
        s2 == Sum([k \in DOMAIN sig |-> d[k] * d[k]])
        s4 == Sum([k \in DOMAIN sig |-> d[k] * d[k] * d[k] * d[k]])
    IN  IF s2 = 0 THEN "nan" ELSE RSub(Rat(n * s4, s2 * s2), RInt(3))

\* ------------------------------------------------ characterize_baseline
\* line 145
PreconditionMut(b, e) == b >= 0

Precondition(b, e) == b >= 0 /\ e >= b

\* line 148
IsShort(b, e, minlen) == e - b < minlen

\* line 149
CenterMut(b, e) == RInt(b + ((e - b) \div 2))

Center(b, e) == RAdd(RInt(b), RDiv(RInt(e - b), RInt(2)))

\* line 150
NewBegMut(b, e, minlen) ==
    LET x == Trunc(RSub(Center(b, e), RDiv(RInt(minlen), RInt(2))))
    IN  x

NewBeg(b, e, minlen) ==
    LET x == Trunc(RSub(Center(b, e), RDiv(RInt(minlen), RInt(2))))
    IN  IF x > 0 THEN x ELSE 0

\* line 151
NewEndMut(b, e, minlen) == Trunc(RAdd(Center(b, e), RInt(minlen \div 2)))

NewEnd(b, e, minlen) == Trunc(RAdd(Center(b, e), RDiv(RInt(minlen), RInt(2))))

\* get_signal_fragment(beg, end, lead=lead)[0]: the arrays the signal
\* buffer may hand back; it may also raise
Leads == {"MLII", "V1"}
Fragments == UNION {Arrays(n, 0..1) : n \in 0..MaxFragLen}

\* ------------------------------------------------------------- inputs
ExampleArrays == {Arr(<<0, 1, 2, 1, 0, 1, 2>>), Arr(<<5, 5, 5, 6, 7, 5>>)}
PeakInputs == (UNION {Arrays(n, 0..MaxVal) : n \in 0..MaxLen}) \cup ExampleArrays

InitPeaks ==
    /\ op = "get_peaks"
    /\ arr \in PeakInputs
    /\ args = arr
    /\ sdif = None /\ i = None /\ signal = None
    /\ lead = None /\ beg = None /\ end = None

ModeInputs == UNION {Arrays(n, 0..MaxSample) : n \in 0..MaxSigLen}

InitMode ==
    /\ op = "mode"
    /\ signal \in ModeInputs
    /\ args = signal
    /\ arr = None /\ sdif = None /\ i = None
    /\ lead = None /\ beg = None /\ end = None

FlSamples == {x \in (0 - MaxFlSample)..MaxFlSample : x % 2 = 0 /\ Representable(x)}

InitModeFl ==
    /\ op = "mode_fl"
    /\ signal \in UNION {Arrays(n, {c}) : n \in 1..MaxSigLen, c \in FlSamples}
    /\ args = signal
    /\ arr = None /\ sdif = None /\ i = None
    /\ lead = None /\ beg = None /\ end = None

InitBaseline ==
    /\ op = "characterize_baseline"
    /\ lead \in Leads
    /\ beg \in (0 - 1)..MaxBeg
    /\ end \in (0 - 1)..MaxEnd
    /\ args = [lead |-> lead, beg |-> beg, end |-> end]
    /\ arr = None /\ sdif = None /\ i = None /\ signal = None

Init ==
    /\ pc = "start"
    /\ C \in [BL_MARGIN : 1..MaxMargin, BL_MIN_LEN : 1..MaxMinLen]
    /\ calls = <<>>
    /\ ret = None
    /\ err = ""
    /\ \/ InitPeaks
       \/ InitMode
       \/ InitModeFl
       \/ InitBaseline

\* ---------------------------------------------------------- get_peaks
\* lines 103-105
GP_Enter ==
    /\ op = "get_peaks" /\ pc = "start"
    /\ IF TooShort(arr)
       THEN /\ err' = "ValueError: The array needs to have at least three values"
            /\ pc' = "raised"
            /\ UNCHANGED sdif
       ELSE /\ sdif' = SignDiff(arr)
            /\ pc' = "any"
            /\ UNCHANGED err
    /\ UNCHANGED <<op, C, arr, i, signal, lead, beg, end, args, calls, ret>>

\* lines 107-112
GP_Any ==
    /\ op = "get_peaks" /\ pc = "any"
    /\ IF AllFlat(sdif)
       THEN /\ ret' = <<>>
            /\ pc' = "done"
            /\ UNCHANGED i
       ELSE /\ IF sdif[0] = 0
               THEN /\ i' = 1 /\ pc' = "scan"
               ELSE /\ i' = 1 /\ pc' = "fill"
            /\ UNCHANGED ret
    /\ UNCHANGED <<op, C, arr, sdif, signal, lead, beg, end, args, calls, err>>

\* lines 113-115: one test of the while condition
GP_Scan ==
    /\ op = "get_peaks" /\ pc = "scan"
    /\ IF i \notin DOMAIN sdif
       THEN /\ err' = "IndexError"
            /\ pc' = "raised"
            /\ UNCHANGED <<sdif, i>>
       ELSE IF sdif[i] = 0
            THEN /\ i' = i + 1
                 /\ UNCHANGED <<sdif, pc, err>>
            ELSE /\ sdif' = [sdif EXCEPT ![0] = sdif[i]]
                 /\ i' = 1
                 /\ pc' = "fill"
                 /\ UNCHANGED err
    /\ UNCHANGED <<op, C, arr, signal, lead, beg, end, args, calls, ret>>

\* lines 116-119: one iteration of the for loop, or the return after it
GP_Fill ==
    /\ op = "get_peaks" /\ pc = "fill"
    /\ IF i < len(sdif)
       THEN /\ sdif' = Fill(sdif, i)
            /\ i' = i + 1
            /\ UNCHANGED <<pc, ret>>
       ELSE /\ ret' = Where(sdif)
            /\ pc' = "done"
            /\ UNCHANGED <<sdif, i>>
    /\ UNCHANGED <<op, C, arr, signal, lead, beg, end, args, calls, err>>

\* --------------------------------------------------------------- mode
\* lines 31-36; signal.max() of an empty array raises ValueError
Mode ==
    /\ op = "mode" /\ pc = "start"
    /\ IF signal = EmptyArr
       THEN /\ err' = "ValueError: zero-size array"
            /\ pc' = "raised"
            /\ UNCHANGED ret
       ELSE /\ ret' = ModeValue(signal, C.BL_MARGIN)
            /\ pc' = "done"
            /\ UNCHANGED err
    /\ UNCHANGED <<op, C, arr, sdif, i, signal, lead, beg, end, args, calls>>

\* lines 31-36 evaluated in floating point on a constant signal
ModeFl ==
    /\ op = "mode_fl" /\ pc = "start"
    /\ ret' = FlModeValue(signal)
    /\ pc' = "done"
    /\ UNCHANGED <<op, C, arr, sdif, i, signal, lead, beg, end, args, calls, err>>

\* ------------------------------------------------ characterize_baseline
\* line 145
CB_Assert ==
    /\ op = "characterize_baseline" /\ pc = "start"
    /\ IF Precondition(beg, end)
       THEN /\ pc' = "window"
            /\ UNCHANGED err
       ELSE /\ err' = "AssertionError"
            /\ pc' = "raised"
    /\ UNCHANGED <<op, C, arr, sdif, i, signal, lead, beg, end, args, calls, ret>>

\* lines 148-151
CB_Window ==
    /\ op = "characterize_baseline" /\ pc = "window"
    /\ IF IsShort(beg, end, C.BL_MIN_LEN)
       THEN /\ beg' = NewBeg(beg, end, C.BL_MIN_LEN)
            /\ end' = NewEnd(beg, end, C.BL_MIN_LEN)
       ELSE UNCHANGED <<beg, end>>
    /\ pc' = "fetch"
    /\ UNCHANGED <<op, C, arr, sdif, i, signal, lead, args, calls, ret, err>>

\* line 152: the call either raises, which ends characterize_baseline, or
\* hands back a fragment
CB_FetchMut ==
    /\ op = "characterize_baseline" /\ pc = "fetch"
    /\ calls' = Append(calls, [beg |-> beg, end |-> end, lead |-> lead])
    /\ \/ /\ IF Len(calls) < 1
             THEN UNCHANGED <<err, pc>>
             ELSE err' = "UpstreamFailure" /\ pc' = "raised"
          /\ UNCHANGED signal
       \/ /\ signal' \in Fragments
          /\ pc' = "return"
          /\ UNCHANGED err
    /\ UNCHANGED <<op, C, arr, sdif, i, lead, beg, end, args, ret>>

CB_Fetch ==
    /\ op = "characterize_baseline" /\ pc = "fetch"
    /\ calls' = Append(calls, [beg |-> beg, end |-> end, lead |-> lead])
    /\ \/ /\ err' = "UpstreamFailure"
          /\ pc' = "raised"
          /\ UNCHANGED signal
       \/ /\ signal' \in Fragments
          /\ pc' = "return"
          /\ UNCHANGED err
    /\ UNCHANGED <<op, C, arr, sdif, i, lead, beg, end, args, ret>>

\* line 153
CB_Return ==
    /\ op = "characterize_baseline" /\ pc = "return"
    /\ IF signal = EmptyArr
       THEN /\ err' = "ValueError: zero-size array"
            /\ pc' = "raised"
            /\ UNCHANGED ret
       ELSE /\ ret' = <<ModeValue(signal, C.BL_MARGIN), Kurtosis(signal)>>
            /\ pc' = "done"
            /\ UNCHANGED err
    /\ UNCHANGED <<op, C, arr, sdif, i, signal, lead, beg, end, args, calls>>

Next ==
    \/ GP_Enter \/ GP_Any \/ GP_Scan \/ GP_Fill
    \/ Mode \/ ModeFl
    \/ CB_Assert \/ CB_Window \/ CB_Fetch \/ CB_Return

Spec == Init /\ [][Next]_vars

\* ================================================================ claims
Returned == pc = "done"
Raised == pc = "raised"
Finished == Returned \/ Raised
StrictlyAscending(q) == \A j \in 1..(Len(q) - 1) : q[j] < q[j + 1]
Elements(q) == {q[j] : j \in 1..Len(q)}

\* ---- get_peaks as the claim describes it
RawSign(a, j) == Sign(a[j + 1] - a[j])
LastDiff(a) == len(a) - 2
InLeadingZeroRun(a, j) == \A k \in 0..j : RawSign(a, k) = 0
ResolvedSign(a, j) ==
    IF \A k \in 0..LastDiff(a) : RawSign(a, k) = 0 THEN 0
    ELSE IF InLeadingZeroRun(a, j)
         THEN RawSign(a, CHOOSE k \in (j + 1)..LastDiff(a) :
                             /\ RawSign(a, k) # 0
                             /\ \A m \in (j + 1)..(k - 1) : RawSign(a, m) = 0)
         ELSE RawSign(a, CHOOSE k \in 0..j :
                             /\ RawSign(a, k) # 0
                             /\ \A m \in (k + 1)..j : RawSign(a, m) = 0)
ClaimedPeaks(a) ==
    {p \in 1..(len(a) - 2) : ResolvedSign(a, p) # ResolvedSign(a, p - 1)}

\* C1: get_peaks on an array of length >= 3 returns, ascending and without
\* duplicates, exactly the interior indices where the resolved sign of the
\* difference changes (a zero difference takes the sign of the first nonzero
\* difference after it inside the leading zero run, of the last nonzero
\* difference before it elsewhere); an all-flat array gives the empty
\* sequence, [0,1,2,1,0,1,2] gives [2,4] and [5,5,5,6,7,5] gives [4].
C1_PeaksAreSignChanges ==
    (op = "get_peaks" /\ len(arr) >= 3 /\ Finished) =>
        /\ Returned
        /\ StrictlyAscending(ret)
        /\ Elements(ret) = ClaimedPeaks(arr)
        /\ (\A k \in 0..LastDiff(arr) : RawSign(arr, k) = 0) => ret = <<>>
        /\ arr = Arr(<<0, 1, 2, 1, 0, 1, 2>>) => ret = <<2, 4>>
        /\ arr = Arr(<<5, 5, 5, 6, 7, 5>>) => ret = <<4>>

C1_Witness ==
    /\ op = "get_peaks" /\ Returned
    /\ RawSign(arr, 0) = 0
    /\ \E k \in 1..LastDiff(arr) : RawSign(arr, k) = 0 /\ RawSign(arr, k - 1) # 0
    /\ Len(ret) >= 1

\* ---- characterize_baseline: the request seen by get_signal_fragment
IsBaseline == op = "characterize_baseline"
Requested == IsBaseline /\ Len(calls) >= 1
ShortWindow == args.end - args.beg < C.BL_MIN_LEN
ValidArgs == args.beg >= 0 /\ args.end >= args.beg
\* twice (midpoint - BL_MIN_LEN/2), the symmetric start of the widened window
SymmetricStart2 == args.beg + args.end - C.BL_MIN_LEN
Unclamped == SymmetricStart2 >= 0

\* C2: a window shorter than BL_MIN_LEN whose symmetric start is not
\* negative is requested with length exactly BL_MIN_LEN, for every parity of
\* end - beg and of BL_MIN_LEN; when the symmetric start is negative the
\* request starts at 0 and is not longer than BL_MIN_LEN.
C2_ExpandedLength ==
    (Requested /\ ValidArgs /\ ShortWindow) =>
        /\ Unclamped => calls[1].end - calls[1].beg = C.BL_MIN_LEN
        /\ ~Unclamped => /\ calls[1].beg = 0
                         /\ calls[1].end - calls[1].beg <= C.BL_MIN_LEN

C2_Witness ==
    /\ Requested /\ ValidArgs /\ ShortWindow /\ Unclamped
    /\ C.BL_MIN_LEN % 2 = 1
    /\ (args.end - args.beg) % 2 = 0
    /\ calls[1].end - calls[1].beg = C.BL_MIN_LEN

\* C3 as stated: the widened, unclamped request is centred exactly on the
\* original midpoint, (b' + e')/2 = (beg + end)/2.
C3_ExactlyCentred ==
    (Requested /\ ValidArgs /\ ShortWindow /\ Unclamped) =>
        calls[1].beg + calls[1].end = args.beg + args.end

\* C3 amended: the widened, unclamped request has the original midpoint when
\* end - beg and BL_MIN_LEN have the same parity, and a midpoint half a
\* sample below it when they differ in parity.
C3_CentredWithinHalfSample ==
    (Requested /\ ValidArgs /\ ShortWindow /\ Unclamped) =>
        IF (args.end - args.beg) % 2 = C.BL_MIN_LEN % 2
        THEN calls[1].beg + calls[1].end = args.beg + args.end
        ELSE calls[1].beg + calls[1].end = args.beg + args.end - 1

C3_Witness ==
    /\ Requested /\ ValidArgs /\ ShortWindow /\ Unclamped
    /\ (args.end - args.beg) % 2 # C.BL_MIN_LEN % 2
    /\ calls[1].beg + calls[1].end = args.beg + args.end - 1

\* C4: a call with beg < 0 or end < beg raises the assertion failure and
\* get_signal_fragment is never invoked in it.
C4_RejectedBeforeFetch ==
    (IsBaseline /\ ~ValidArgs) =>
        /\ calls = <<>>
        /\ pc # "start" => (Raised /\ err = "AssertionError")
        /\ ret = None

C4_Witness ==
    /\ IsBaseline /\ args.beg >= 0 /\ args.end < args.beg
    /\ Raised /\ err = "AssertionError" /\ calls = <<>>

\* C5: get_peaks raises exactly when the input has fewer than 3 values, and
\* then the "at least three values" error; every longer array, whatever its
\* leading run of zero differences, ends with a returned result: the
\* leading-zero scan stays inside the difference sequence, with a nonzero
\* difference still ahead of it, and the fill loop stays inside it too.
C5_FailsOnlyWhenShort ==
    op = "get_peaks" =>
        /\ Raised => (len(arr) < 3 /\
              err = "ValueError: The array needs to have at least three values")
        /\ (Finished /\ len(arr) < 3) => Raised
        /\ Returned => (len(arr) >= 3 /\ err = "")
        /\ pc = "scan" => (i \in DOMAIN sdif /\ \E k \in i..LastDiff(arr) : sdif[k] # 0)
        /\ pc = "fill" => i \in 1..len(sdif)

C5_Witness ==
    /\ op = "get_peaks" /\ Returned
    /\ len(arr) >= 4
    /\ \A k \in 0..(LastDiff(arr) - 1) : RawSign(arr, k) = 0
    /\ RawSign(arr, LastDiff(arr)) # 0

\* ---- mode on a constant signal
IsConstant(sig) == sig # EmptyArr /\ \A k \in DOMAIN sig : sig[k] = sig[0]

\* C6 as stated: on a non-empty array of one repeated value c, mode returns
\* exactly c.
C6_ConstantExactly ==
    /\ (op = "mode" /\ Returned /\ IsConstant(signal)) => ret = RInt(signal[0])
    /\ (op = "mode_fl" /\ Returned) => ret = signal[0]

\* C6 amended: on a non-empty array of one repeated value c, mode returns
\* exactly c whenever c - 0.5 and c + 0.5 are exactly representable in the
\* floating-point format (as for integer samples).
C6_ConstantWhenRepresentable ==
    /\ (op = "mode" /\ Returned /\ IsConstant(signal)) => ret = RInt(signal[0])
    /\ (op = "mode_fl" /\ Returned
          /\ Representable(signal[0] - FlHalf)
          /\ Representable(signal[0] + FlHalf)) => ret = signal[0]

C6_Witness ==
    /\ op = "mode_fl" /\ Returned /\ len(signal) >= 2
    /\ signal[0] # 0
    /\ Representable(signal[0] - FlHalf)
    /\ Representable(signal[0] + FlHalf)
    /\ ret = signal[0]

\* C7: a call that satisfies the precondition invokes get_signal_fragment
\* exactly once, with the given lead; a failure of that call is the failure
\* of characterize_baseline, with no second request and no returned pair.
C7_OneFetchFailurePropagates ==
    (IsBaseline /\ ValidArgs) =>
        /\ Len(calls) <= 1
        /\ pc \in {"start", "window", "fetch"} => calls = <<>>
        /\ Finished => (Len(calls) = 1 /\ calls[1].lead = args.lead)
        /\ err = "UpstreamFailure" => (Raised /\ ret = None /\ signal = None)
        /\ Returned => err = ""

C7_Witness ==
    /\ IsBaseline /\ ValidArgs
    /\ Raised /\ err = "UpstreamFailure"
    /\ Len(calls) = 1 /\ calls[1].lead = args.lead /\ ret = None

\* ---- mode as the claim describes it
ClaimNBins(sig, margin) ==
    LET r == ArrMax(sig) - ArrMin(sig)
        q == CHOOSE n \in 0..r : n * margin <= r /\ r < (n + 1) * margin
    IN  IF q = 0 THEN 1 ELSE q
ClaimInBin(x, b, sig, nb) ==
    LET r == ArrMax(sig) - ArrMin(sig)
        o == x - ArrMin(sig)
    IN  IF r = 0 THEN b = 0
        ELSE \/ b * r <= o * nb /\ o * nb < (b + 1) * r
             \/ b = nb - 1 /\ x = ArrMax(sig)
ClaimCount(b, sig, nb) ==
    Cardinality({k \in DOMAIN sig : ClaimInBin(sig[k], b, sig, nb)})
ClaimPeak(sig, nb) ==
    CHOOSE b \in 0..(nb - 1) :
        /\ \A o \in 0..(nb - 1) : ClaimCount(o, sig, nb) <= ClaimCount(b, sig, nb)
        /\ \A o \in 0..(b - 1) : ClaimCount(o, sig, nb) < ClaimCount(b, sig, nb)
ClaimMode(sig, margin) ==
    LET nb == ClaimNBins(sig, margin)
        b == ClaimPeak(sig, nb)
        r == ArrMax(sig) - ArrMin(sig)
    IN  Rat(2 * nb * ArrMin(sig) + (2 * b + 1) * r, 2 * nb)

C10_RequestContainsWindow ==
    (Requested /\ ValidArgs) =>
        /\ 0 <= calls[1].beg
        /\ calls[1].beg <= args.beg
        /\ args.end <= calls[1].end
        /\ ~ShortWindow => (calls[1].beg = args.beg /\ calls[1].end = args.end)

C10_Witness ==
    /\ Requested /\ ValidArgs /\ ShortWindow /\ ~Unclamped
    /\ args.beg > 0
    /\ calls[1].beg = 0 /\ calls[1].end > args.end
====
